---- MODULE Spec2Model ----
(***************************************************************************)
(* Card-approval service: model of the serving path (model registry        *)
(* resolution, ModelService, PreprocessingService, the /predict,           *)
(* /reload-model and /model-info handlers), of the feature encoder and      *)
(* aligner, and of the training script's persistence of the preprocessing  *)
(* artifacts, and of the fitted preprocessors (FeatureEngineer, FeatureScaler, *)
(* DimensionalityReducer) from fitting to the serving transform.           *)
(*                                                                         *)
(* Scheduling of the serving path.  The three handlers are `async def`     *)
(* functions without an await in their bodies, so each handler body runs   *)
(* to completion on the event loop: bodies are atomic steps.  The          *)
(* dependency get_model_service is a plain `def`, which the framework runs *)
(* on a worker thread before the body: its check of the global and the     *)
(* construction of a ModelService (network calls) are separate steps, and  *)
(* several requests may be inside it at once.  The registry is changed by  *)
(* other processes (training, operators) at any time.                      *)
(***************************************************************************)
EXTENDS Integers, Sequences, FiniteSets, TLC

VARIABLES
    registry,               \* the model versions of MODEL_NAME in the registry
    model_service,          \* model_service.py:92, the global instance (None or a reference)
    inst,                   \* the ModelService objects that exist, by reference
    preprocessing_service,  \* preprocessing_service.py:66, the global instance
    constructing,           \* how many requests are inside ModelService()
    queue,                  \* the requests whose body is scheduled on the event loop,
                            \* each with the ModelService that Depends handed it
    last,                   \* the last reply sent by a handler
    X,                      \* the raw DataFrame handed to the encoder
    reference_columns,      \* the reference column list handed to align_features
    X_encoded,              \* the encoded DataFrame (the object align_features is given)
    X_aligned,              \* the DataFrame align_features returned
    pc,                     \* how far the encoding went
    disk,                   \* the files of the processed-data directory, by name
    models,                 \* run_training.py --models
    loaded,                 \* run_training.py:93-95, scaler, pca and feature_names
    trainer,                \* the ModelTrainer, by attribute
    runs,                   \* the tracking server's runs of the experiment
    tpc,                    \* how far the scripts got
    engineer,               \* the FeatureEngineer: its scaler and its pca
    pickles,                \* scaler.pkl and pca.pkl of the output directory
    served,                 \* the scaler and pca a PreprocessingService loaded
    calls,                  \* the calls made on resampler, scaler and reducer, in order
    out,                    \* what the last transform returned or raised
    fpc                     \* whether full_pipeline has run

serveVars == <<registry, model_service, inst, preprocessing_service, constructing,
               queue, last>>

alignVars == <<X, reference_columns, X_encoded, X_aligned, pc>>

trainVars == <<disk, models, loaded, trainer, runs, tpc>>

fitVars == <<engineer, pickles, served, calls, out, fpc>>

\* what the serving path leaves alone
notServing == <<alignVars, trainVars, fitVars>>

\* what encoding and alignment leave alone
notAligning == <<serveVars, trainVars, fitVars>>

\* what the preprocessing and training scripts leave alone
notTraining == <<serveVars, alignVars, fitVars>>

\* what fitting and applying the preprocessors leave alone
notFitting == <<serveVars, alignVars, trainVars>>

vars == <<serveVars, alignVars, trainVars, fitVars>>

----------------------------------------------------------------------------
(* Bounds *)

\* number of requests that can be in flight at once
NumProcs == 2
\* number of the oldest version the registry gets
FirstVersion == 9
\* how many versions are registered
NumVersions == 2

Refs == 1..NumProcs
VersionNumbers == FirstVersion..(FirstVersion + NumVersions - 1)

----------------------------------------------------------------------------
(* Settings (app/core/config.py) *)

MODEL_STAGE == "Production"

\* Python's None, for a run id, a version, a classifier and a service object
None == "<None>"
NoVersion == <<>>
NoModel == [version |-> NoVersion, source |-> None]
NoPreprocessingService ==
    [run_id |-> None, scaler |-> None, pca |-> None, feature_names |-> None]

----------------------------------------------------------------------------
(* Version identifiers are decimal strings, kept as their digits *)

RECURSIVE Digits(_)
\* str(n) of the registry's version counter
Digits(n) == IF n < 10 THEN <<n>> ELSE Digits(n \div 10) \o <<n % 10>>

RECURSIVE IntOf(_)
\* int(v.version)
IntOf(s) == IF Len(s) = 0 THEN 0
            ELSE 10 * IntOf(SubSeq(s, 1, Len(s) - 1)) + s[Len(s)]

\* the id of the training run that produced version number n
RunIdOf(n) == "run" \o ToString(n)

\* Python truthiness of a run id: None and "" are falsy
Truthy(run_id) == run_id # None /\ run_id # ""

Stages == {"None", "Production", "Archived"}

\* a ModelVersion of the registry; source names the run whose model artifact it is
ModelVersion(n, stage, run_id) ==
    [version |-> Digits(n), current_stage |-> stage, run_id |-> run_id,
     source |-> RunIdOf(n)]

----------------------------------------------------------------------------
(* ModelService *)

\* ModelService.__init__ before _load_model
NewModelService == [model |-> NoModel, version |-> NoVersion, run_id |-> None]

\* lexicographic order of two digit strings (what comparing version strings would do)
RECURSIVE StrLess(_, _)
StrLess(a, b) ==
    IF Len(b) = 0 THEN FALSE
    ELSE IF Len(a) = 0 THEN TRUE
    ELSE IF a[1] # b[1] THEN a[1] < b[1]
    ELSE StrLess(Tail(a), Tail(b))

\* a resolution that sorts the version strings instead of their integer values
LatestVersion_StringOrder(stage_versions) ==
    CHOOSE v \in stage_versions :
        \A w \in stage_versions : w = v \/ StrLess(w.version, v.version)

\* sorted(stage_versions, key=lambda v: int(v.version), reverse=True)[0]
LatestVersion(stage_versions) ==
    CHOOSE v \in stage_versions :
        \A w \in stage_versions : IntOf(w.version) <= IntOf(v.version)

\* a resolution that takes every registered version, whatever its stage
StageVersions_AnyStage(model_versions, stage) == model_versions

\* [v for v in model_versions if v.current_stage == self.settings.MODEL_STAGE]
StageVersions(model_versions, stage) ==
    {v \in model_versions : v.current_stage = stage}

\* mlflow.pyfunc.load_model(models:/MODEL_NAME/version): the classifier of that version
LoadedClassifier(mv) == [version |-> mv.version, source |-> mv.source]

\* _load_model that clears the object before it resolves, as __init__ does
LoadModel_ResetFirst(self, model_versions, loadOk) ==
    LET stage_versions == StageVersions(model_versions, MODEL_STAGE) IN
    IF stage_versions = {}
    THEN [self |-> NewModelService, raised |-> "NoVersionInStage"]
    ELSE LET latest_version == LatestVersion(stage_versions)
             s1 == [NewModelService EXCEPT !.version = latest_version.version,
                                           !.run_id = latest_version.run_id]
         IN  IF loadOk
             THEN [self |-> [s1 EXCEPT !.model = LoadedClassifier(latest_version)],
                   raised |-> "no"]
             ELSE [self |-> s1, raised |-> "ArtifactLoadError"]

\* a _load_model that forgets the loaded bundle when it finds no version
LoadModel_ClearOnFailure(self, model_versions, loadOk) ==
    LET stage_versions == StageVersions(model_versions, MODEL_STAGE) IN
    IF stage_versions = {}
    THEN [self |-> NewModelService, raised |-> "NoVersionInStage"]
    ELSE LET latest_version == LatestVersion(stage_versions)
             s1 == [self EXCEPT !.version = latest_version.version,
                                !.run_id = latest_version.run_id]
         IN  IF loadOk
             THEN [self |-> [s1 EXCEPT !.model = LoadedClassifier(latest_version)],
                   raised |-> "no"]
             ELSE [self |-> s1, raised |-> "ArtifactLoadError"]

\* ModelService._load_model: the object after the call, and what it raised.
\* version and run_id are assigned (lines 49-50) before the classifier is
\* loaded (line 56); every exception leaves as RuntimeError (line 61).
LoadModel(self, model_versions, loadOk) ==
    LET stage_versions == StageVersions(model_versions, MODEL_STAGE) IN
    IF stage_versions = {}
    THEN [self |-> self, raised |-> "NoVersionInStage"]
    ELSE LET latest_version == LatestVersion(stage_versions)
             s1 == [self EXCEPT !.version = latest_version.version,
                                !.run_id = latest_version.run_id]
         IN  IF loadOk
             THEN [self |-> [s1 EXCEPT !.model = LoadedClassifier(latest_version)],
                   raised |-> "no"]
             ELSE [self |-> s1, raised |-> "ArtifactLoadError"]

\* ModelService.get_model_info
GetModelInfo(self) ==
    [version |-> self.version, run_id |-> self.run_id, loaded |-> self.model # NoModel]

----------------------------------------------------------------------------
(* PreprocessingService *)

\* PreprocessingService.__init__: scaler, pca and feature_names are the three
\* files of the directory downloaded from runs:/<run_id>/preprocessors
NewPreprocessingService(run_id) ==
    [run_id |-> run_id, scaler |-> run_id, pca |-> run_id, feature_names |-> run_id]

\* get_preprocessing_service that falls back to the cached service when the
\* artifacts of the new run cannot be loaded
GetPreprocessingService_FallBack(cached, run_id, downloadOk) ==
    IF cached = NoPreprocessingService \/ (Truthy(run_id) /\ cached.run_id # run_id)
    THEN IF downloadOk /\ Truthy(run_id)
         THEN [service |-> NewPreprocessingService(run_id), raised |-> "no", fetched |-> TRUE]
         ELSE [service |-> cached,
               raised |-> IF cached = NoPreprocessingService
                          THEN "ArtifactLoadError" ELSE "no",
               fetched |-> TRUE]
    ELSE [service |-> cached, raised |-> "no", fetched |-> FALSE]

\* get_preprocessing_service: the global after the call, what it raised, and
\* whether it went to the registry.  A download for a falsy run id
\* (runs:/None/preprocessors) finds nothing.
GetPreprocessingService(cached, run_id, downloadOk) ==
    IF cached = NoPreprocessingService \/ (Truthy(run_id) /\ cached.run_id # run_id)
    THEN IF downloadOk /\ Truthy(run_id)
         THEN [service |-> NewPreprocessingService(run_id), raised |-> "no", fetched |-> TRUE]
         ELSE [service |-> cached, raised |-> "ArtifactLoadError", fetched |-> TRUE]
    ELSE [service |-> cached, raised |-> "no", fetched |-> FALSE]

----------------------------------------------------------------------------
(* Replies.  last is the reply of the last request that ended.              *)

NoReply ==
    [op |-> "none", status |-> "none", detail |-> "no", version |-> NoVersion,
     prediction |-> -1, decision |-> "none"]

\* the reply of a handler: its return value, or HTTPException(500, detail=...),
\* whose detail is the message of what was raised; for a failed dependency,
\* which no handler catches, the framework's bare 500 without a detail.
\* prediction and decision are fields of a PredictionOutput only.
Reply(op, raised, version) ==
    [op |-> op, status |-> IF raised = "no" THEN "ok" ELSE "error",
     detail |-> IF op = "dependency" THEN "InternalServerError" ELSE raised,
     version |-> IF raised = "no" THEN version ELSE NoVersion,
     prediction |-> -1, decision |-> "none"]

\* what the classifier returns for a request: 1 is good credit, 0 is bad credit
ClassLabels == {0, 1}

\* how far a predict gets (lines 19-25): the artifact download, where there is
\* one, fails, preprocess raises, the classifier raises, or the classifier
\* returns a label
PredictionResults ==
    {[raised |-> "no", value |-> y] : y \in ClassLabels} \cup
    {[raised |-> e, value |-> -1] :
        e \in {"ArtifactLoadError", "PreprocessingError", "ClassifierError"}}

\* a decision with the two labels taken the other way round
Decision_Inverted(prediction) == IF prediction = 0 THEN "APPROVED" ELSE "REJECTED"

\* decision = "APPROVED" if prediction == 1 else "REJECTED"
Decision(prediction) == IF prediction = 1 THEN "APPROVED" ELSE "REJECTED"

\* PredictionOutput(prediction=..., decision=..., version=...)
PredictionOutput(prediction, version) ==
    [Reply("predict", "no", version) EXCEPT
        !.prediction = prediction, !.decision = Decision(prediction)]

----------------------------------------------------------------------------
(* The registry, changed from outside the service *)

NextVersionNumber == FirstVersion + Cardinality(registry)

\* register a run's model as the next version; it starts in stage "None".
\* A version created from a model source alone carries no run id.
RegisterVersion ==
    /\ NextVersionNumber \in VersionNumbers
    /\ \E run_id \in {RunIdOf(NextVersionNumber), ""} :
          registry' = registry \cup {ModelVersion(NextVersionNumber, "None", run_id)}
    /\ UNCHANGED <<model_service, inst, preprocessing_service, constructing, queue, last>>
    /\ UNCHANGED notServing

\* transition a version to the next stage of its life: None -> Production -> Archived
TransitionStage ==
    /\ \E v \in registry :
          /\ v.current_stage \in {"None", "Production"}
          /\ registry' = (registry \ {v}) \cup
                {[v EXCEPT !.current_stage =
                     IF v.current_stage = "None" THEN "Production" ELSE "Archived"]}
    /\ UNCHANGED <<model_service, inst, preprocessing_service, constructing, queue, last>>
    /\ UNCHANGED notServing

----------------------------------------------------------------------------
(* Requests.  A request is in flight from its arrival to its reply; requests   *)
(* carry no identity of their own.  The bodies run on the event loop in the    *)
(* order in which their dependencies completed.                                *)

InFlight == constructing + Len(queue)

Range(q) == {q[i] : i \in 1..Len(q)}

\* the objects some reference still reaches, given the global and the queue
Live(global, q) == (IF global = 0 THEN {} ELSE {global}) \cup Range(q)

\* objects nothing refers to any more are gone
Collect(objects, global, q) ==
    [i \in Refs |-> IF i \in Live(global, q) THEN objects[i] ELSE NewModelService]

\* a get_model_service that constructs for every request that arrives
Arrive_NoCache ==
    /\ InFlight < NumProcs
    /\ constructing' = constructing + 1
    /\ UNCHANGED <<registry, model_service, inst, preprocessing_service, queue, last>>
    /\ UNCHANGED notServing

\* get_model_service, the check of the global (model_service.py:98), for a
\* request that arrives while the global is None or while a constructor is
\* still running (the global may be replaced before the body runs)
Arrive ==
    /\ InFlight < NumProcs
    /\ IF model_service = 0
       THEN /\ constructing' = constructing + 1
            /\ UNCHANGED queue
       ELSE /\ constructing > 0
            /\ queue' = Append(queue, model_service)
            /\ UNCHANGED constructing
    /\ UNCHANGED <<registry, model_service, inst, preprocessing_service, last>>
    /\ UNCHANGED notServing

\* get_model_service, model_service = ModelService() (model_service.py:100):
\* the constructor raises, and the request ends, or the new object is published
ConstructOutcome(loadOk) == LoadModel(NewModelService, registry, loadOk)

Construct(loadOk) ==
    /\ constructing > 0
    /\ constructing' = constructing - 1
    /\ LET r == ConstructOutcome(loadOk)
           new == CHOOSE i \in Refs : i \notin Range(queue) /\
                     \A j \in Refs : j \notin Range(queue) => i <= j
       IN  IF r.raised = "no"
           THEN /\ model_service' = new
                /\ queue' = Append(queue, new)
                /\ inst' = Collect([inst EXCEPT ![new] = r.self], new, queue')
                /\ UNCHANGED last
           ELSE /\ last' = Reply("dependency", r.raised, NoVersion)
                /\ UNCHANGED <<inst, model_service, queue>>
    /\ UNCHANGED <<registry, preprocessing_service>>
    /\ UNCHANGED notServing

\* A handler body runs for the request at the head of the queue, or, once the
\* global is set and no request is in flight, for a request that arrives:
\* get_model_service then returns the cached global (model_service.py:101-103),
\* which nothing replaces before the body runs.
CanRun ==
    \/ queue # <<>>
    \/ queue = <<>> /\ model_service # 0 /\ constructing = 0

\* the ModelService object Depends(get_model_service) hands the body
Handed == IF queue # <<>> THEN Head(queue) ELSE model_service

\* the request is over: its reference to the service object is dropped
Done(objects) ==
    /\ queue' = IF queue # <<>> THEN Tail(queue) ELSE queue
    /\ inst' = Collect(objects, model_service, queue')

\* predict, lines 19-25: what get_preprocessing_service, preprocess and then
\* ModelService.predict do for the object the body was handed
PredictOutcome(result) ==
    LET self == inst[Handed]
        g == GetPreprocessingService(preprocessing_service, self.run_id,
                                     result.raised # "ArtifactLoadError")
    IN  [service |-> g.service, fetched |-> g.fetched,
         raised |-> IF g.raised # "no" THEN g.raised
                    ELSE IF result.raised = "PreprocessingError" THEN result.raised
                    ELSE IF self.model = NoModel THEN "ModelNotLoaded"
                    ELSE IF result.raised = "ClassifierError" THEN result.raised
                    ELSE "no",
         prediction |-> result.value]

\* POST /api/v1/predict (routers/predict.py:12-44)
Predict(result) ==
    /\ CanRun
    /\ LET r == PredictOutcome(result)
       IN  /\ result.raised = "ArtifactLoadError" => r.fetched
           /\ preprocessing_service' = r.service
           /\ last' = IF r.raised = "no"
                      THEN PredictionOutput(r.prediction,
                                            GetModelInfo(inst[Handed]).version)
                      ELSE Reply("predict", r.raised, NoVersion)
    /\ Done(inst)
    /\ UNCHANGED <<registry, model_service, constructing>>
    /\ UNCHANGED notServing

\* reload_model, line 56: what ModelService.reload_model does to the object
ReloadOutcome(loadOk) == LoadModel(inst[Handed], registry, loadOk)

\* POST /api/v1/reload-model (routers/predict.py:47-62)
Reload(loadOk) ==
    /\ CanRun
    /\ UNCHANGED <<registry, model_service, preprocessing_service, constructing>>
    /\ last' = Reply("reload", ReloadOutcome(loadOk).raised,
                     GetModelInfo(ReloadOutcome(loadOk).self).version)
    /\ Done([inst EXCEPT ![Handed] = ReloadOutcome(loadOk).self])
    /\ UNCHANGED notServing

\* GET /api/v1/model-info (routers/predict.py:65-68)
Info ==
    /\ CanRun
    /\ last' = Reply("info", "no", GetModelInfo(inst[Handed]).version)
    /\ Done(inst)
    /\ UNCHANGED <<registry, model_service, preprocessing_service, constructing>>
    /\ UNCHANGED notServing

----------------------------------------------------------------------------
(* Encoding and alignment.  A DataFrame is its column labels and its rows, each *)
(* row holding one value per column.                                           *)

\* the most rows a raw batch has
MaxRows == 2
\* the most labels a reference column list has
MaxRef == 3

\* the input fields kept, in the order of PredictionInput (schemas/prediction.py)
Fields == <<"CODE_GENDER", "FLAG_OWN_CAR", "CNT_CHILDREN">>

\* the str fields: the columns of dtype object, which get_dummies encodes
Categorical == {"CODE_GENDER", "FLAG_OWN_CAR"}

\* the values a field takes, those of a str field in sorted order
Values(field) ==
    IF field = "CODE_GENDER" THEN <<"F", "M">>
    ELSE IF field = "FLAG_OWN_CAR" THEN <<"N", "Y">>
    ELSE <<0, 2>>

NoFrame == [columns |-> <<>>, rows |-> <<>>]

\* pd.DataFrame([input_data.model_dump()]) and the frames of more rows
RawRows ==
    {<<g, c, n>> : g \in Range(Values(Fields[1])), c \in Range(Values(Fields[2])),
                   n \in Range(Values(Fields[3]))}
RawFrames ==
    {[columns |-> Fields, rows |-> rows] :
        rows \in UNION {[1..n -> RawRows] : n \in 1..MaxRows}}

\* the labels a reference column list is made of
Labels ==
    {"CNT_CHILDREN", "CODE_GENDER_F", "CODE_GENDER_M", "FLAG_OWN_CAR_Y"}
ReferenceLists == UNION {[1..n -> Labels] : n \in 0..MaxRef}

\* pd.get_dummies with drop_first ignored
Dummies_KeepFirst(df, j, drop_first) ==
    LET levels == SelectSeq(Values(df.columns[j]),
                            LAMBDA v : \E i \in 1..Len(df.rows) : df.rows[i][j] = v)
    IN  [k \in 1..Len(levels) |->
            [label |-> df.columns[j] \o "_" \o levels[k], of |-> j, level |-> levels[k]]]

\* the indicator columns pd.get_dummies makes of column j: one per value the
\* column takes in this frame, in sorted order, the first dropped on drop_first
Dummies(df, j, drop_first) ==
    LET levels == SelectSeq(Values(df.columns[j]),
                            LAMBDA v : \E i \in 1..Len(df.rows) : df.rows[i][j] = v)
        kept == IF drop_first /\ levels # <<>> THEN Tail(levels) ELSE levels
    IN  [k \in 1..Len(kept) |->
            [label |-> df.columns[j] \o "_" \o kept[k], of |-> j, level |-> kept[k]]]

RECURSIVE AllDummies(_, _, _)
AllDummies(df, j, drop_first) ==
    IF j > Len(df.columns) THEN <<>>
    ELSE (IF df.columns[j] \in Categorical THEN Dummies(df, j, drop_first) ELSE <<>>)
         \o AllDummies(df, j + 1, drop_first)

\* pd.get_dummies(df, drop_first=drop_first): the columns that are not encoded
\* come first, then the indicator columns of each encoded column
GetDummies(df, drop_first) ==
    LET d == AllDummies(df, 1, drop_first)
        n == SelectSeq([j \in 1..Len(df.columns) |-> j],
                       LAMBDA j : df.columns[j] \notin Categorical)
    IN  [columns |-> [k \in 1..Len(n) |-> df.columns[n[k]]]
                     \o [k \in 1..Len(d) |-> d[k].label],
         rows |-> [i \in 1..Len(df.rows) |->
                     [k \in 1..Len(n) |-> df.rows[i][n[k]]]
                     \o [k \in 1..Len(d) |->
                           IF df.rows[i][d[k].of] = d[k].level THEN 1 ELSE 0]]]

\* a column assignment that fills the new column with 1
AddZeroColumn_One(df, col) ==
    [columns |-> Append(df.columns, col),
     rows |-> [i \in 1..Len(df.rows) |-> Append(df.rows[i], 1)]]

\* X[col] = 0 for a label X does not have: a new last column of zeros
AddZeroColumn(df, col) ==
    [columns |-> Append(df.columns, col),
     rows |-> [i \in 1..Len(df.rows) |-> Append(df.rows[i], 0)]]

\* a selection that keeps the listed columns in the order the frame has them
SelectColumns_FrameOrder(df, cols) ==
    LET keep == SelectSeq([j \in 1..Len(df.columns) |-> j],
                          LAMBDA j : df.columns[j] \in Range(cols))
    IN  [columns |-> [k \in 1..Len(keep) |-> df.columns[keep[k]]],
         rows |-> [i \in 1..Len(df.rows) |->
                     [k \in 1..Len(keep) |-> df.rows[i][keep[k]]]]]

\* X[reference_columns]: the listed columns, in the order of the list
SelectColumns(df, cols) ==
    LET at(label) == CHOOSE j \in 1..Len(df.columns) : df.columns[j] = label
    IN  [columns |-> cols,
         rows |-> [i \in 1..Len(df.rows) |->
                     [k \in 1..Len(cols) |-> df.rows[i][at(cols[k])]]]]

\* FeatureEncoder.align_features, the loop of lines 56-58, from position k on
RECURSIVE AddMissing(_, _, _)
AddMissing(df, cols, k) ==
    IF k > Len(cols) THEN df
    ELSE AddMissing(IF cols[k] \notin Range(df.columns)
                    THEN AddZeroColumn(df, cols[k]) ELSE df, cols, k + 1)

\* FeatureEncoder.align_features: the frame it was given, as the call leaves
\* it, and the frame it returns
AlignFeatures(df, cols) ==
    LET filled == AddMissing(df, cols, 1)
    IN  [X |-> filled, X_aligned |-> SelectColumns(filled, cols)]

\* PreprocessingService.align_features, the loop of lines 42-44
RECURSIVE ServiceAddMissing(_, _, _)
ServiceAddMissing(df, cols, k) ==
    IF k > Len(cols) THEN df
    ELSE ServiceAddMissing(IF cols[k] \notin Range(df.columns)
                           THEN AddZeroColumn(df, cols[k]) ELSE df, cols, k + 1)

\* PreprocessingService.align_features
ServiceAlignFeatures(df, cols) ==
    LET filled == ServiceAddMissing(df, cols, 1)
    IN  [X |-> filled, X_aligned |-> SelectColumns(filled, cols)]

\* nothing is being encoded
AlignIdle ==
    /\ X = NoFrame
    /\ reference_columns = <<>>
    /\ X_encoded = NoFrame
    /\ X_aligned = NoFrame
    /\ pc = "idle"

\* FeatureEncoder.one_hot_encode (encoders.py:18-40)
OneHotEncode ==
    /\ pc = "raw"
    /\ X_encoded' = GetDummies(X, TRUE)
    /\ pc' = "encoded"
    /\ UNCHANGED <<X, reference_columns, X_aligned>>
    /\ UNCHANGED notAligning

\* FeatureEncoder.align_features (encoders.py:42-65) on the encoded frame
Align ==
    /\ pc = "encoded"
    /\ X_encoded' = AlignFeatures(X_encoded, reference_columns).X
    /\ X_aligned' = AlignFeatures(X_encoded, reference_columns).X_aligned
    /\ pc' = "aligned"
    /\ UNCHANGED <<X, reference_columns>>
    /\ UNCHANGED notAligning

\* PreprocessingService.preprocess, lines 50 and 53, on the one-row frame that
\* predict makes of a request (routers/predict.py:21-22)
Preprocess ==
    /\ pc = "raw"
    /\ Len(X.rows) = 1
    /\ LET df_encoded == GetDummies(X, TRUE)
           r == ServiceAlignFeatures(df_encoded, reference_columns)
       IN  /\ X_encoded' = r.X
           /\ X_aligned' = r.X_aligned
    /\ pc' = "preprocessed"
    /\ UNCHANGED <<X, reference_columns>>
    /\ UNCHANGED notAligning

----------------------------------------------------------------------------
(* The preprocessing script and the training script, run one after the other  *)
(* on one processed-data directory and one tracking server.                   *)

\* how many model classes the configuration names
NumCandidates == 2
\* the metric values a candidate can score
MaxScore == 2

\* MODEL_CLASSES, in its order (model_configs.py:16-22)
MODEL_CLASSES == <<"AdaBoost", "XGBoost", "LightGBM", "CatBoost", "Naive Bayes">>

\* the model classes the configuration has hyperparameters for
Configured == SubSeq(MODEL_CLASSES, 1, NumCandidates)

Files == {"scaler.pkl", "pca.pkl", "feature_names.json"}

\* get_model_configs: the configured classes, only the requested ones if any
\* were requested, in the order of MODEL_CLASSES
GetModelConfigs(requested) ==
    IF requested # {} THEN SelectSeq(Configured, LAMBDA name : name \in requested)
    ELSE Configured

\* ModelTrainer.__init__
NewModelTrainer ==
    [tracking_uri |-> "uri", experiment_name |-> "experiment",
     trained_models |-> {}, results |-> <<>>]

\* hasattr(obj, name)
HasAttr(obj, name) == name \in DOMAIN obj

\* FeatureEngineer.full_pipeline, step 6: self.scaler is always set, self.pca
\* only when PCA was applied; nothing writes the feature names
SavePreprocessors(files, apply_pca_transform, save_preprocessors) ==
    IF save_preprocessors
    THEN [f \in Files |->
            IF f = "scaler.pkl" THEN "scaler"
            ELSE IF f = "pca.pkl" /\ apply_pca_transform THEN "pca"
            ELSE files[f]]
    ELSE files

\* scripts/run_preprocessing.py main
RunPreprocessing(apply_pca_transform) ==
    /\ tpc = "start"
    /\ disk' = SavePreprocessors(disk, apply_pca_transform, TRUE)
    /\ tpc' = "prepared"
    /\ UNCHANGED <<models, loaded, trainer, runs>>
    /\ UNCHANGED notTraining

NothingLoaded == [scaler |-> None, pca |-> None, feature_names |-> None]

\* run_training.py:112-114: the names a feature_names.json of either kind holds
FeatureNames(file) ==
    IF file = "pca" THEN <<"PC1", "PC2">> ELSE <<"CNT_CHILDREN", "CODE_GENDER_M">>

\* run_training.py:117 with == in place of startswith
StartsWithPC_Exact(name) == name = "PC"

\* run_training.py:117, name.startswith("PC")
StartsWithPC(name) == name \in {"PC1", "PC2"}

\* run_training.py:117, the test that refuses the file
ContainsPcaFeatures(feature_names) ==
    /\ feature_names # <<>>
    /\ \A i \in 1..(IF Len(feature_names) < 5 THEN Len(feature_names) ELSE 5) :
          StartsWithPC(feature_names[i])

\* scripts/run_training.py main, step 2: a missing file leaves its variable
\* None, but missing or PCA-named feature names end the script
LoadArtifacts ==
    /\ tpc = "prepared"
    /\ IF /\ disk["feature_names.json"] # None
          /\ ~ContainsPcaFeatures(FeatureNames(disk["feature_names.json"]))
       THEN /\ loaded' = [scaler |-> disk["scaler.pkl"], pca |-> disk["pca.pkl"],
                          feature_names |-> disk["feature_names.json"]]
            /\ trainer' = NewModelTrainer
            /\ tpc' = "training"
       ELSE /\ tpc' = "failed"
            /\ UNCHANGED <<loaded, trainer>>
    /\ UNCHANGED <<disk, models, runs>>
    /\ UNCHANGED notTraining

\* ModelTrainer.train_all_models, one turn of its loop: train_single_model
\* opens a run of its own for the candidate, logs the metric and, if the
\* logging works, the model; the result it returns holds no run id
TrainSingleModel(score, logOk) ==
    /\ tpc = "training"
    /\ Len(trainer.results) < Len(GetModelConfigs(models))
    /\ LET model_name == GetModelConfigs(models)[Len(trainer.results) + 1]
       IN  /\ runs' = Append(runs, [run_id |-> RunIdOf(Len(runs) + 1),
                                    run_name |-> model_name, f1_score |-> score,
                                    model |-> IF logOk THEN model_name ELSE None,
                                    artifacts |-> {}])
           /\ trainer' = [trainer EXCEPT
                 !.results = Append(@, [Model |-> model_name, F1 |-> score]),
                 !.trained_models = @ \cup {model_name}]
    /\ UNCHANGED <<disk, models, loaded, tpc>>
    /\ UNCHANGED notTraining

\* a selection that keeps the last of the best
GetBestModel_LastOfBest(results) ==
    LET k == CHOOSE i \in 1..Len(results) :
                /\ \A j \in 1..Len(results) : results[j].F1 <= results[i].F1
                /\ \A j \in (i + 1)..Len(results) : results[j].F1 < results[i].F1
    IN  results[k]

\* max(self.results, key=lambda x: x[metric]): the first of the best
GetBestModel(results) ==
    LET k == CHOOSE i \in 1..Len(results) :
                /\ \A j \in 1..Len(results) : results[j].F1 <= results[i].F1
                /\ \A j \in 1..(i - 1) : results[j].F1 < results[i].F1
    IN  results[k]

\* ModelTrainer.save_best_model, called at run_training.py:163
SaveBestModel ==
    /\ tpc = "training"
    /\ Len(trainer.results) = Len(GetModelConfigs(models))
    /\ LET best == GetBestModel(trainer.results)
       IN  trainer' = [a \in DOMAIN trainer \cup {"best_model_name", "best_score"} |->
                          IF a = "best_model_name" THEN best.Model
                          ELSE IF a = "best_score" THEN best.F1
                          ELSE trainer[a]]
    /\ tpc' = "saved"
    /\ UNCHANGED <<disk, models, loaded, runs>>
    /\ UNCHANGED notTraining

\* MLflowArtifactManager.log_preprocessing_artifacts: the artifacts of the
\* active run after the call.  Each object that is not None is written in
\* turn; the write numbered fail_at raises, which ends the call without error.
LogPreprocessingArtifacts(artifacts, scaler, pca, feature_names, fail_at) ==
    LET a1 == IF scaler # None /\ fail_at # 1
              THEN artifacts \cup {"scaler.pkl"} ELSE artifacts
        stop1 == scaler # None /\ fail_at = 1
        a2 == IF ~stop1 /\ pca # None /\ fail_at # 2
              THEN a1 \cup {"pca.pkl"} ELSE a1
        stop2 == stop1 \/ (pca # None /\ fail_at = 2)
        a3 == IF ~stop2 /\ feature_names # None /\ fail_at # 3
              THEN a2 \cup {"feature_names.json"} ELSE a2
    IN  a3

\* where the run with this id is
RunAt(run_id) == CHOOSE k \in 1..Len(runs) : runs[k].run_id = run_id

\* scripts/run_training.py main, lines 168-176
LogArtifacts(fail_at) ==
    /\ tpc = "saved"
    /\ IF HasAttr(trainer, "best_model_run_id") /\ Truthy(trainer.best_model_run_id)
       THEN runs' = [runs EXCEPT ![RunAt(trainer.best_model_run_id)].artifacts =
                        LogPreprocessingArtifacts(@, loaded.scaler, loaded.pca,
                                                  loaded.feature_names, fail_at)]
       ELSE UNCHANGED runs
    /\ tpc' = "logged"
    /\ UNCHANGED <<disk, models, loaded, trainer>>
    /\ UNCHANGED notTraining

\* MLflowArtifactManager.log_preprocessing_artifacts called with a run active,
\* as run_training.py:172-173 calls it
LogToRun(k, fail_at) ==
    /\ tpc = "logged"
    /\ k \in 1..Len(runs)
    /\ runs' = [runs EXCEPT ![k].artifacts =
                  LogPreprocessingArtifacts(@, loaded.scaler, loaded.pca,
                                            loaded.feature_names, fail_at)]
    /\ tpc' = "done"
    /\ UNCHANGED <<disk, models, loaded, trainer>>
    /\ UNCHANGED notTraining

\* MLflowRegistry.register_model: the run's model becomes the next version of
\* the model name, in stage "None"
RegisterModel(model_versions, run_id) ==
    model_versions \cup
        {ModelVersion(FirstVersion + Cardinality(model_versions), "None", run_id)}

\* MLflowRegistry.transition_model_stage for the versions of a run
TransitionModelStage(model_versions, run_id, stage) ==
    {IF v.run_id = run_id /\ v.current_stage = "None"
     THEN [v EXCEPT !.current_stage = stage] ELSE v : v \in model_versions}

\* scripts/run_training.py main, lines 235-278, one registry call a step.
\* Reading trainer.best_model_run_id raises AttributeError when the trainer
\* has no such attribute (line 247); the handler of line 267 reads it again
\* (line 271), so the exception leaves through line 276 and main returns 1.
AutoRegister(auto_register) ==
    /\ tpc \in {"logged", "registered"}
    /\ IF tpc = "registered"
       THEN /\ registry' = TransitionModelStage(registry, trainer.best_model_run_id,
                                                "Production")
            /\ tpc' = "returned"
       ELSE IF ~auto_register
       THEN /\ tpc' = "skipped"
            /\ UNCHANGED registry
       ELSE IF ~HasAttr(trainer, "best_model_run_id")
       THEN /\ tpc' = "failed"
            /\ UNCHANGED registry
       ELSE /\ registry' = RegisterModel(registry, trainer.best_model_run_id)
            /\ tpc' = "registered"
    /\ UNCHANGED <<disk, models, loaded, trainer, runs>>
    /\ UNCHANGED <<model_service, inst, preprocessing_service, constructing, queue, last>>
    /\ UNCHANGED <<alignVars, fitVars>>

----------------------------------------------------------------------------
(* The fitted preprocessors: FeatureEngineer with its FeatureScaler and its *)
(* DimensionalityReducer, their files, and the scaler and reducer a         *)
(* PreprocessingService loads.  An object is written as the sequence of its *)
(* layers, the object itself first and what it wraps after it: a new        *)
(* FeatureScaler is a FeatureScaler around an unfitted StandardScaler.      *)

\* how many components a run may ask of the reducer, next to the default
MaxComponents == 2

\* how many calls on resampler, scaler and reducer a behaviour records
MaxCalls == 6

\* dimensionality.py:15, feature_engineering.py:178: the default component count
DefaultComponents == 5

Components == (1..MaxComponents) \cup {DefaultComponents}

Layer(class, n, fitted) == [class |-> class, n |-> n, fitted |-> fitted]

\* Python's None
NoneObject == <<Layer("NoneType", 0, FALSE)>>

\* a file that does not exist
NoPickle == <<>>

\* scalers.py:15-35, FeatureScaler("standard"): the StandardScaler exists from
\* construction on, not fitted
NewFeatureScaler ==
    <<Layer("FeatureScaler", 0, FALSE), Layer("StandardScaler", 0, FALSE)>>

\* dimensionality.py:15-25
NewDimensionalityReducer(n_components) ==
    <<Layer("DimensionalityReducer", n_components, FALSE),
      Layer("PCA", n_components, FALSE)>>

\* feature_engineering.py:21-28
NewFeatureEngineer == [scaler |-> NewFeatureScaler, pca |-> NoneObject]

\* scalers.py:49, dimensionality.py:38: the wrapper fits the object it holds
FitTransform(obj) == <<obj[1], [obj[2] EXCEPT !.fitted = TRUE]>>

\* a matrix: a DataFrame has named columns, an ndarray has a width only
DataFrame(columns) == [kind |-> "DataFrame", ncols |-> Len(columns), columns |-> columns]

NDArray(ncols) == [kind |-> "ndarray", ncols |-> ncols, columns |-> <<>>]

NoMatrix == [kind |-> "none", ncols |-> 0, columns |-> <<>>]

Returned(matrix) == [raised |-> "no", value |-> matrix]

Raised(error) == [raised |-> error, value |-> NoMatrix]

\* dimensionality.py:48, 66, preprocessing_service.py:62
PCNames(n) == [i \in 1..n |-> "PC" \o ToString(i)]

\* the encoded and aligned frame the preprocessors are given
EncodedFrame == DataFrame(<<"CNT_CHILDREN", "CODE_GENDER_M", "FLAG_OWN_CAR_Y">>)

\* dimensionality.py:66, pd.DataFrame(X_pca, columns=[PC1..PC{self.n_components}]):
\* an ndarray of another width is refused, a DataFrame (the inner object is a
\* wrapper itself) is reindexed to the names asked for
DimensionalityReducer_Frame(n_components, X_pca) ==
    IF X_pca.kind = "ndarray" /\ X_pca.ncols # n_components
    THEN Raised("ValueError")
    ELSE Returned(DataFrame(PCNames(n_components)))

RECURSIVE Transform(_, _)
\* obj.transform(X): scalers.py:52-68, dimensionality.py:52-68, sklearn's
\* transform of an estimator (NotFittedError before fit), and attribute access
\* on None
Transform(obj, matrix) ==
    LET self == Head(obj) IN
    CASE self.class = "NoneType" -> Raised("AttributeError")
      [] self.class = "StandardScaler" ->
            IF self.fitted THEN Returned(NDArray(matrix.ncols)) ELSE Raised("NotFittedError")
      [] self.class = "PCA" ->
            IF self.fitted THEN Returned(NDArray(self.n)) ELSE Raised("NotFittedError")
      [] self.class = "FeatureScaler" ->
            IF Head(Tail(obj)).class = "NoneType"
            THEN Raised("ScalerNotFitted")
            ELSE LET X_scaled == Transform(Tail(obj), matrix) IN
                 IF X_scaled.raised # "no" THEN X_scaled
                 ELSE Returned(NDArray(X_scaled.value.ncols))
      [] self.class = "DimensionalityReducer" ->
            LET X_pca == Transform(Tail(obj), matrix) IN
            IF X_pca.raised # "no" THEN X_pca
            ELSE DimensionalityReducer_Frame(self.n, X_pca.value)

\* mlflow_artifacts.py:38, 47: the inner object of a wrapper, else the object
Unwrapped(obj) ==
    IF Head(obj).class \in {"FeatureScaler", "DimensionalityReducer"} THEN Tail(obj) ELSE obj

Call(by, op) == [by |-> by, op |-> op]

\* feature_engineering.py:110-129 with scaling before resampling
FullPipelineCalls_ScaleFirst(apply_smote, apply_pca_transform) ==
    <<Call("full_pipeline", "one_hot_encode")>>
    \o <<Call("full_pipeline", "scaler.fit_transform")>>
    \o (IF apply_smote THEN <<Call("full_pipeline", "apply_smote_tomek")>> ELSE <<>>)
    \o (IF apply_pca_transform THEN <<Call("full_pipeline", "pca.fit_transform")>> ELSE <<>>)

\* feature_engineering.py:110-129: steps 1 to 4 of full_pipeline, in order
FullPipelineCalls(apply_smote, apply_pca_transform) ==
    <<Call("full_pipeline", "one_hot_encode")>>
    \o (IF apply_smote THEN <<Call("full_pipeline", "apply_smote_tomek")>> ELSE <<>>)
    \o <<Call("full_pipeline", "scaler.fit_transform")>>
    \o (IF apply_pca_transform THEN <<Call("full_pipeline", "pca.fit_transform")>> ELSE <<>>)

Output(by, result) == [by |-> by, raised |-> result.raised, value |-> result.value]

NoOutput == Output("nobody", Raised("nothing"))

\* feature_engineering.py:79-162
FullPipeline(apply_smote, apply_pca_transform, n_components, save_preprocessors) ==
    /\ fpc = "new"
    /\ LET scaler == FitTransform(engineer.scaler)
           pca == IF apply_pca_transform
                  THEN FitTransform(NewDimensionalityReducer(n_components))
                  ELSE engineer.pca
       IN /\ engineer' = [scaler |-> scaler, pca |-> pca]
          /\ pickles' = IF save_preprocessors
                        THEN [scaler |-> scaler,
                              pca |-> IF pca # NoneObject THEN pca ELSE pickles.pca]
                        ELSE pickles
          /\ out' = Output("full_pipeline",
                           Returned(DataFrame(IF apply_pca_transform
                                              THEN PCNames(n_components)
                                              ELSE EncodedFrame.columns)))
    /\ calls' = calls \o FullPipelineCalls(apply_smote, apply_pca_transform)
    /\ fpc' = "fitted"
    /\ UNCHANGED served
    /\ UNCHANGED notFitting

\* feature_engineering.py:164-171, with scalers.py:70-73 and dimensionality.py:70-73
FeatureEngineerSave ==
    /\ pickles' = [scaler |-> Tail(engineer.scaler),
                   pca |-> IF engineer.pca # NoneObject
                           THEN Tail(engineer.pca) ELSE pickles.pca]
    /\ pickles' # pickles
    /\ UNCHANGED <<engineer, served, calls, out, fpc>>
    /\ UNCHANGED notFitting

\* feature_engineering.py:173-179 on a new FeatureEngineer, with scalers.py:75-78
\* and dimensionality.py:75-78
FeatureEngineerLoad ==
    /\ pickles.scaler # NoPickle
    /\ engineer' = [scaler |-> <<Head(NewFeatureScaler)>> \o pickles.scaler,
                    pca |-> IF pickles.pca # NoPickle
                            THEN <<Head(NewDimensionalityReducer(DefaultComponents))>>
                                 \o pickles.pca
                            ELSE NoneObject]
    /\ engineer' # engineer
    /\ UNCHANGED <<pickles, served, calls, out, fpc>>
    /\ UNCHANGED notFitting

\* run_training.py:93-111 and mlflow_artifacts.py:17-61 hand the files to the
\* run, preprocessing_service.py:25-38 loads them from it
LoadFromMlflow ==
    /\ pickles.scaler # NoPickle
    /\ pickles.pca # NoPickle
    /\ served' = [scaler |-> Unwrapped(pickles.scaler), pca |-> Unwrapped(pickles.pca)]
    /\ served' # served
    /\ UNCHANGED <<engineer, pickles, calls, out, fpc>>
    /\ UNCHANGED notFitting

\* scalers.py:52-68 called on the engineer's scaler
ScalerTransform ==
    /\ Len(calls) < MaxCalls
    /\ calls' = Append(calls, Call("FeatureScaler.transform", "scaler.transform"))
    /\ out' = Output("FeatureScaler.transform", Transform(engineer.scaler, EncodedFrame))
    /\ UNCHANGED <<engineer, pickles, served, fpc>>
    /\ UNCHANGED notFitting

\* dimensionality.py:52-68 called on a reducer that was only constructed
ReducerTransform(n_components) ==
    /\ Len(calls) < MaxCalls
    /\ calls' = Append(calls, Call("DimensionalityReducer.transform", "pca.transform"))
    /\ out' = Output("DimensionalityReducer.transform",
                     Transform(NewDimensionalityReducer(n_components),
                               NDArray(EncodedFrame.ncols)))
    /\ UNCHANGED <<engineer, pickles, served, fpc>>
    /\ UNCHANGED notFitting

\* feature_engineering.py:44-49 with fit=False
ApplyPca ==
    /\ Len(calls) < MaxCalls
    /\ calls' = Append(calls, Call("apply_pca", "pca.transform"))
    /\ out' = Output("apply_pca", Transform(engineer.pca, NDArray(EncodedFrame.ncols)))
    /\ UNCHANGED <<engineer, pickles, served, fpc>>
    /\ UNCHANGED notFitting

\* preprocessing_service.py:47-62 from the scaling on (encoding and alignment
\* are OneHotEncode and Align above)
ServicePreprocess ==
    /\ served.scaler # NoneObject
    /\ Len(calls) + 1 < MaxCalls
    /\ calls' = calls \o <<Call("preprocess", "scaler.transform"),
                           Call("preprocess", "pca.transform")>>
    /\ LET df_scaled == Transform(served.scaler, EncodedFrame)
           df_pca == IF df_scaled.raised # "no" THEN df_scaled
                     ELSE Transform(served.pca, df_scaled.value)
       IN out' = Output("preprocess",
                        IF df_pca.raised # "no" THEN df_pca
                        ELSE Returned(DataFrame(PCNames(df_pca.value.ncols))))
    /\ UNCHANGED <<engineer, pickles, served, fpc>>
    /\ UNCHANGED notFitting

----------------------------------------------------------------------------
(* The specifications: the serving path, encoding and alignment of a batch, *)
(* and the scripts.  Each leaves the state of the others as it was built.   *)

\* no request was served
ServeIdle ==
    /\ registry = {}
    /\ model_service = 0
    /\ inst = [i \in Refs |-> NewModelService]
    /\ preprocessing_service = NoPreprocessingService
    /\ constructing = 0
    /\ queue = <<>>
    /\ last = NoReply

\* no script runs
TrainIdle ==
    /\ disk = [f \in Files |-> None]
    /\ models = {}
    /\ loaded = NothingLoaded
    /\ trainer = NewModelTrainer
    /\ runs = <<>>
    /\ tpc = "idle"


\* no preprocessor was fitted, saved or loaded
FitIdle ==
    /\ engineer = NewFeatureEngineer
    /\ pickles = [scaler |-> NoPickle, pca |-> NoPickle]
    /\ served = [scaler |-> NoneObject, pca |-> NoneObject]
    /\ calls = <<>>
    /\ out = NoOutput
    /\ fpc = "new"


Init ==
    /\ ServeIdle
    /\ AlignIdle
    /\ TrainIdle
    /\ FitIdle

Next ==
    \/ RegisterVersion
    \/ TransitionStage
    \/ Arrive
    \/ \E loadOk \in BOOLEAN : Construct(loadOk)
    \/ \E result \in PredictionResults : Predict(result)
    \/ \E loadOk \in BOOLEAN : Reload(loadOk)
    \/ Info

Spec == Init /\ [][Next]_vars

InitAlign ==
    /\ ServeIdle
    /\ TrainIdle
    /\ FitIdle
    /\ X \in RawFrames
    /\ reference_columns \in ReferenceLists
    /\ X_encoded = NoFrame
    /\ X_aligned = NoFrame
    /\ pc = "raw"

NextAlign ==
    \/ OneHotEncode
    \/ Align
    \/ Preprocess

SpecAlign == InitAlign /\ [][NextAlign]_vars

InitTrain ==
    /\ ServeIdle
    /\ AlignIdle
    /\ FitIdle
    /\ \E names \in {None, "onehot", "pca"} :
          disk = [f \in Files |-> IF f = "feature_names.json" THEN names ELSE None]
    /\ models \in SUBSET Range(Configured)
    /\ loaded = NothingLoaded
    /\ trainer = NewModelTrainer
    /\ runs = <<>>
    /\ tpc = "start"

NextTrain ==
    \/ \E apply_pca_transform \in BOOLEAN : RunPreprocessing(apply_pca_transform)
    \/ LoadArtifacts
    \/ \E score \in 1..MaxScore, logOk \in BOOLEAN : TrainSingleModel(score, logOk)
    \/ SaveBestModel
    \/ \E fail_at \in 0..Cardinality(Files) : LogArtifacts(fail_at)
    \/ \E k \in 1..NumCandidates, fail_at \in 0..Cardinality(Files) : LogToRun(k, fail_at)
    \/ \E auto_register \in BOOLEAN : AutoRegister(auto_register)

SpecTrain == InitTrain /\ [][NextTrain]_vars

InitFit ==
    /\ ServeIdle
    /\ AlignIdle
    /\ TrainIdle
    /\ FitIdle

NextFit ==
    \/ \E apply_smote \in BOOLEAN, apply_pca_transform \in BOOLEAN,
          n_components \in Components, save_preprocessors \in BOOLEAN :
          FullPipeline(apply_smote, apply_pca_transform, n_components, save_preprocessors)
    \/ FeatureEngineerSave
    \/ FeatureEngineerLoad
    \/ LoadFromMlflow
    \/ ScalerTransform
    \/ \E n_components \in Components : ReducerTransform(n_components)
    \/ ApplyPca
    \/ ServicePreprocess

SpecFit == InitFit /\ [][NextFit]_vars

----------------------------------------------------------------------------
(* Properties of the serving path *)

\* what a predict handed the object i works with: the classifier, the version
\* it reports and the cached preprocessing artifacts
ServedBundle(i) ==
    [classifier |-> inst[i].model, info |-> GetModelInfo(inst[i]),
     artifacts |-> preprocessing_service]

\* C1: every predict that answers uses a classifier and preprocessing artifacts
\* (scaler, reducer, reference columns) that all come from one and the same
\* training run, whatever reloads ran before or around it.
C1_AtomicBundle ==
    [][\A result \in PredictionResults :
         Predict(result) /\ PredictOutcome(result).raised = "no"
         => LET service == PredictOutcome(result).service
                classifier == inst[Handed].model
            IN  /\ service.scaler = classifier.source
                /\ service.pca = classifier.source
                /\ service.feature_names = classifier.source]_vars

\* C2: a reload whose artifact load fails after the version was resolved
\* leaves the classifier, the version and the run id of the service as they
\* were before the reload.
C2_ReloadAllOrNothing ==
    [][\A ok \in BOOLEAN :
         Reload(ok) /\ ReloadOutcome(ok).raised = "ArtifactLoadError"
         => /\ ReloadOutcome(ok).self.model = inst[Handed].model
            /\ ReloadOutcome(ok).self.version = inst[Handed].version
            /\ ReloadOutcome(ok).self.run_id = inst[Handed].run_id]_vars

\* C3: a reload on a loaded service that finds no version in the configured
\* stage answers with an error and changes nothing: the service object, the
\* global, the cached preprocessing artifacts and so the bundle later predicts
\* and info requests answer with are the ones from before the reload.
C3_ReloadNoVersionPreserves ==
    [][\A ok \in BOOLEAN :
         /\ ~ \E v \in registry : v.current_stage = MODEL_STAGE
         /\ CanRun /\ inst[Handed].model # NoModel
         /\ Reload(ok)
         => /\ last'.op = "reload" /\ last'.status = "error"
            /\ last'.detail = "NoVersionInStage"
            /\ ReloadOutcome(ok).self = inst[Handed]
            /\ model_service' = model_service
            /\ \A i \in Live(model_service', queue') :
                  ServedBundle(i)' = ServedBundle(i)]_vars

\* C3 happens: a reload found the stage empty on a service that still holds
\* its classifier
C3_Witness ==
    /\ last.op = "reload" /\ last.detail = "NoVersionInStage"
    /\ model_service # 0
    /\ inst[model_service].model # NoModel
    /\ preprocessing_service # NoPreprocessingService
    /\ registry # {}
    /\ ~ \E v \in registry : v.current_stage = MODEL_STAGE

\* the numbers of the registered versions in the configured stage
StageNumbers ==
    {n \in VersionNumbers :
        \E v \in registry : v.version = Digits(n) /\ v.current_stage = MODEL_STAGE}

\* the registered version with the greatest number in the configured stage
HighestInStage ==
    LET n == CHOOSE k \in StageNumbers : \A m \in StageNumbers : m <= k
    IN  CHOOSE v \in registry : v.version = Digits(n)

\* C4: whatever the registry holds, resolution, in the constructor and in a
\* reload of any service object, settles on the version whose number is the
\* greatest, compared as integers, among the registered versions in the
\* configured stage; versions in other stages do not count, whatever their
\* number.
C4_ResolveHighestInStage ==
    StageNumbers # {}
    => LET highest == HighestInStage
       IN  \A ok \in BOOLEAN :
              LET outcomes == {ConstructOutcome(ok)} \cup
                     {LoadModel(inst[i], registry, ok) :
                         i \in Live(model_service, queue)}
              IN  \A r \in outcomes :
                     /\ r.self.version = highest.version
                     /\ r.self.run_id = highest.run_id

\* C4 happens: a reload answered with the two-digit version while a one-digit
\* version, greater as a string, was in the stage with it
C4_Witness ==
    /\ last.op = "reload" /\ last.status = "ok"
    /\ \E v, w \in registry :
          /\ v.current_stage = MODEL_STAGE /\ w.current_stage = MODEL_STAGE
          /\ Len(v.version) < Len(w.version)
          /\ StrLess(w.version, v.version)
          /\ last.version = w.version
          /\ model_service # 0 /\ inst[model_service].version = w.version

\* C10: the classifier and the preprocessing artifacts a predict uses were
\* fetched for the same run id, the run id of the version the latest
\* resolution returned, after a reload and for a version without run id too.
C10_SameRunId ==
    [][\A result \in PredictionResults :
         Predict(result) /\ PredictOutcome(result).raised = "no"
         => LET service == PredictOutcome(result).service
                self == inst[Handed]
            IN  /\ service.run_id = self.run_id
                /\ self.model.version = self.version]_vars
----------------------------------------------------------------------------
(* Properties of encoding and alignment *)

\* the encoded frame as the encoder hands it to align_features
EncodedInput == GetDummies(X, TRUE)

\* where a frame has the column of this label
ColumnAt(df, label) ==
    CHOOSE j \in 1..Len(df.columns) : df.columns[j] = label

\* C5: when predict encodes one raw record whose categorical field F has the
\* value v and F_v is a reference column, the aligned row holds 1 in F_v.
C5_SingleRecordIndicator ==
    pc = "preprocessed"
    => \A j \in 1..Len(Fields) : \A k \in 1..Len(reference_columns) :
          /\ Fields[j] \in Categorical
          /\ reference_columns[k] = Fields[j] \o "_" \o X.rows[1][j]
          => X_aligned.rows[1][k] = 1

\* C6: whatever the encoded frame and the reference list, the frame align
\* returns has exactly the reference list as its columns, in that order and
\* of that length, in every row; columns outside the list are gone.
C6_AlignColumns ==
    pc \in {"aligned", "preprocessed"}
    => /\ X_aligned.columns = reference_columns
       /\ Len(X_aligned.rows) = Len(X.rows)
       /\ \A i \in 1..Len(X_aligned.rows) :
             Len(X_aligned.rows[i]) = Len(reference_columns)

\* C6 happens: the encoded frame had a column outside the reference list, the
\* list had a label the frame lacked, and the list ordered two columns of the
\* frame the other way round
C6_Witness ==
    LET encoded == EncodedInput IN
    /\ pc = "aligned"
    /\ \E c \in Range(encoded.columns) : c \notin Range(reference_columns)
    /\ \E c \in Range(reference_columns) : c \notin Range(encoded.columns)
    /\ \E a, b \in 1..Len(reference_columns) :
          /\ a < b
          /\ reference_columns[a] \in Range(encoded.columns)
          /\ reference_columns[b] \in Range(encoded.columns)
          /\ ColumnAt(encoded, reference_columns[b]) < ColumnAt(encoded, reference_columns[a])
    /\ X_aligned.columns = reference_columns

\* C7: in the frame align returns, a reference column the encoded frame lacked
\* is 0 in every row, and a reference column the encoded frame had holds the
\* encoded frame's values row for row.
C7_AlignValues ==
    pc \in {"aligned", "preprocessed"}
    => LET encoded == EncodedInput
           had == Range(encoded.columns)
       IN  \A i \in 1..Len(X.rows) : \A k \in 1..Len(reference_columns) :
              X_aligned.rows[i][k] =
                 IF reference_columns[k] \in had
                 THEN encoded.rows[i][ColumnAt(encoded, reference_columns[k])]
                 ELSE 0

\* C7 happens: a two-row frame was aligned to a list with a label it lacked,
\* zero in both rows, and a label it had, whose values differ between the rows
C7_Witness ==
    LET had == Range(EncodedInput.columns) IN
    /\ pc = "aligned"
    /\ Len(X.rows) = 2
    /\ \E k, m \in 1..Len(reference_columns) :
          /\ reference_columns[k] \notin had
          /\ X_aligned.rows[1][k] = 0 /\ X_aligned.rows[2][k] = 0
          /\ reference_columns[m] \in had
          /\ X_aligned.rows[1][m] # X_aligned.rows[2][m]

----------------------------------------------------------------------------
(* Properties of the scripts *)

\* the run train_single_model opened for the candidate save_best_model chose
WinningRun ==
    runs[CHOOSE k \in 1..Len(runs) :
            runs[k].run_name = GetBestModel(trainer.results).Model]

\* C8: once the training script has chosen its best model and gone past the
\* logging of the preprocessing artifacts, the scaler, the reducer and the
\* reference columns are artifacts of the winning candidate's run.
C8_ArtifactsOnWinningRun ==
    tpc = "logged" => WinningRun.artifacts = Files

\* all of the three files or none of them
Together(present) == present = {} \/ present = Files

\* C9: after a persistence step, be it the preprocessing script saving to the
\* data directory or a logging to a run, with or without a failed write, the
\* directory and every run hold the scaler file, the reducer file and the
\* feature-names file together or hold none of them.
C9_WrittenTogether ==
    /\ tpc \notin {"idle", "start"} => Together({f \in Files : disk[f] # None})
    /\ \A k \in 1..Len(runs) : Together(runs[k].artifacts)

----------------------------------------------------------------------------
(* Properties of the serving path: loads, reloads and replies *)

\* C11: after a reload that returns successfully, everything the service
\* holds, the classifier, the version, the run id and whatever scaler, reducer
\* and reference columns it has cached, is that of the version the reload
\* resolved.
C11_ReloadInstallsBundle ==
    [][\A ok \in BOOLEAN :
         /\ StageNumbers # {}
         /\ Reload(ok) /\ ReloadOutcome(ok).raised = "no"
         => LET resolved == HighestInStage
                self == ReloadOutcome(ok).self
            IN  /\ self.model = LoadedClassifier(resolved)
                /\ self.version = resolved.version
                /\ self.run_id = resolved.run_id
                /\ preprocessing_service' # NoPreprocessingService
                   => /\ preprocessing_service'.scaler = resolved.source
                      /\ preprocessing_service'.pca = resolved.source
                      /\ preprocessing_service'.feature_names = resolved.source]_vars

\* C12: once the service holds a classifier and preprocessing artifacts, a
\* predict never goes to the registry: it downloads no artifacts, the first
\* predict after a reload included.
C12_PredictNoRegistryCall ==
    [][\A result \in PredictionResults :
         /\ CanRun /\ inst[Handed].model # NoModel
         /\ preprocessing_service # NoPreprocessingService
         /\ Predict(result)
         => ~ PredictOutcome(result).fetched]_vars

FromOneResolution(self) ==
    \E n \in VersionNumbers :
        /\ self.model = [version |-> Digits(n), source |-> RunIdOf(n)]
        /\ self.version = Digits(n)
        /\ self.run_id \in {RunIdOf(n), ""}

\* C14: concurrent first calls and concurrent reloads do not race: there is
\* never more than one service object, the one of the global, and when all
\* requests have finished its classifier, version and run id come from one
\* single resolution.
C14_OneInstanceOneResolution ==
    /\ Cardinality(Live(model_service, queue)) <= 1
    /\ (InFlight = 0 /\ model_service # 0)
       => FromOneResolution(inst[model_service])

\* C15: a predict is read-only on the bundle: it leaves the global, the
\* classifier, version and run id of the cached object and the cached scaler,
\* reducer and reference columns as they were.
C15_PredictReadOnly ==
    [][\A result \in PredictionResults :
         /\ CanRun /\ model_service # 0
         /\ preprocessing_service # NoPreprocessingService
         /\ Predict(result)
         => /\ model_service' = model_service
            /\ inst'[model_service] = inst[model_service]
            /\ preprocessing_service' = preprocessing_service]_vars

\* C16: the version a predict reports in its reply is the version of the
\* classifier that computed the prediction of that reply.
C16_ReportedVersionIsClassifiers ==
    [][\A result \in PredictionResults :
         /\ CanRun
         /\ Predict(result) /\ PredictOutcome(result).raised = "no"
         => last'.version = inst[Handed].model.version]_vars

\* C17: when the load of a first call on an empty service fails, the global
\* stays empty and no object is cached, and as long as the reply to that
\* failure is the latest reply, so that no reload has answered since, every
\* predict that answers next answers with an error.
C17_EmptyUntilReload ==
    [][/\ (model_service = 0 /\ last'.op = "dependency" /\ last' # last)
          => /\ model_service' = 0
             /\ \A i \in Refs : inst'[i] = NewModelService
       /\ (last.op = "dependency" /\ last'.op = "predict")
          => last'.status = "error"]_vars

\* C18: a predict that answers carries in its prediction field the label the
\* classifier returned, and its decision is APPROVED exactly when that label
\* is 1 and REJECTED when it is 0.
C18_DecisionFollowsOutput ==
    [][(/\ last'.op = "predict" /\ last'.status = "ok"
        /\ UNCHANGED <<registry, model_service, constructing>>)
       => \A result \in PredictionResults :
             Predict(result)
             => /\ result.value \in ClassLabels
                /\ last'.prediction = result.value
                /\ (last'.decision = "APPROVED") <=> (result.value = 1)
                /\ (last'.decision = "REJECTED") <=> (result.value = 0)]_vars

\* C18 happens: one predict was approved on the label 1, or rejected on 0
C18_Witness ==
    /\ last.op = "predict" /\ last.status = "ok"
    /\ \/ last.prediction = 1 /\ last.decision = "APPROVED"
       \/ last.prediction = 0 /\ last.decision = "REJECTED"

\* what a handler's HTTPException carries as its detail: the message of the
\* exception the handler caught
HandlerMessages ==
    {"NoVersionInStage", "ArtifactLoadError", "PreprocessingError",
     "ClassifierError", "ModelNotLoaded"}

\* C19: every request that fails, in predict, in reload or in the first load,
\* is answered with a structured error whose detail is the message of what
\* failed.
C19_FailuresAreStructured ==
    last.status = "error" => last.detail \in HandlerMessages

\* C20: a version that is registered and still in stage "None" is never what
\* a resolution settles on: while it waits for its transition, the constructor
\* and a reload of any service object either find no version in the
\* configured stage and raise, exactly when the stage is empty, or take a
\* version that is in the stage.
C20_UnpromotedNeverResolved ==
    LET pending == {v.version : v \in {w \in registry : w.current_stage = "None"}}
        staged == {v.version : v \in {w \in registry : w.current_stage = MODEL_STAGE}}
    IN  pending # {}
        => \A ok \in BOOLEAN :
              LET outcomes == {ConstructOutcome(ok)} \cup
                     {LoadModel(inst[i], registry, ok) :
                         i \in Live(model_service, queue)}
              IN  \A r \in outcomes :
                     /\ (r.raised = "NoVersionInStage") <=> (staged = {})
                     /\ r.raised # "NoVersionInStage"
                        => /\ r.self.version \notin pending
                           /\ r.self.version \in staged

\* C20 happens: a reload answered with the Production version while a
\* version with a higher number was registered and not yet promoted
C20_Witness ==
    /\ last.op = "reload" /\ last.status = "ok"
    /\ model_service # 0 /\ inst[model_service].version = last.version
    /\ \E v, w \in registry :
          /\ v.current_stage = "None"
          /\ w.current_stage = MODEL_STAGE /\ w.version = last.version
          /\ IntOf(w.version) < IntOf(v.version)

----------------------------------------------------------------------------
(* Properties of the scripts: registration, selection and validation *)

\* C21: when the training script has chosen its best model and has ended with
\* auto-register on, the registry holds a version of the winning candidate's
\* run in the Production stage; a version is in Production only once the
\* script has made its second registry call.
C21_AutoRegisterPromotes ==
    /\ (tpc \in {"failed", "returned"} /\ HasAttr(trainer, "best_model_name"))
       => \E v \in registry :
             /\ v.current_stage = "Production"
             /\ v.run_id = WinningRun.run_id
    /\ (\E v \in registry : v.current_stage = "Production") => tpc = "returned"

\* the turn of the training loop in which the candidate was trained
TrainedAt(model_name) ==
    CHOOSE k \in 1..Len(runs) : runs[k].run_name = model_name

\* C22: whatever the candidates trained so far scored, get_best_model returns
\* a candidate with the greatest score, and among those with that score the
\* one trained first; the name and the score save_best_model keeps are those
\* of that candidate.
C22_FirstOfBest ==
    trainer.results # <<>>
    => LET best == GetBestModel(trainer.results)
       IN  /\ \E k \in 1..Len(trainer.results) : trainer.results[k] = best
           /\ \A j \in 1..Len(trainer.results) :
                 LET other == trainer.results[j]
                 IN  /\ other.F1 <= best.F1
                     /\ other.F1 = best.F1
                        => TrainedAt(best.Model) <= TrainedAt(other.Model)
           /\ HasAttr(trainer, "best_model_name")
              => /\ trainer.best_model_name = best.Model
                 /\ trainer.best_score = best.F1

\* C22 happens: two candidates scored the same greatest value and the one
\* trained first was saved as the best
C22_Witness ==
    /\ HasAttr(trainer, "best_model_name")
    /\ \E i, j \in 1..Len(trainer.results) :
          /\ i < j
          /\ trainer.results[i].F1 = trainer.results[j].F1
          /\ \A k \in 1..Len(trainer.results) :
                trainer.results[k].F1 <= trainer.results[i].F1
          /\ trainer.best_model_name = trainer.results[i].Model
          /\ runs[i].run_name = trainer.results[i].Model

----------------------------------------------------------------------------
(* Properties of alignment and of the fitted preprocessors *)

\* C24: align_features is pure: the frame it was given has the same columns
\* and values after the call as before, the reference list is as it was, and
\* the aligned frame is a result of its own; this holds for the encoder's
\* align_features and for the serving one.
C24_AlignPure ==
    [][/\ Align => /\ X_encoded' = X_encoded
                   /\ reference_columns' = reference_columns
       /\ Preprocess => /\ X_encoded' = GetDummies(X, TRUE)
                        /\ reference_columns' = reference_columns]_vars

\* where in the recorded calls an operation was invoked
CallsOf(op) == {i \in 1..Len(calls) : calls[i].op = op}

\* C23 as stated: the scaler is fit exactly once in a run of full_pipeline, every
\* fit of the scaler comes after a call of the resampler, and preprocess only
\* transforms
C23_FitOnlyAfterResampler ==
    /\ Cardinality(CallsOf("scaler.fit_transform")) = IF fpc = "fitted" THEN 1 ELSE 0
    /\ \A i \in CallsOf("scaler.fit_transform") :
          \E j \in CallsOf("apply_smote_tomek") : j < i
    /\ \A i \in 1..Len(calls) :
          calls[i].by = "preprocess" => calls[i].op \in {"scaler.transform", "pca.transform"}

\* C23, amended: the scaler is fit exactly once in a run of full_pipeline; when
\* the run resamples, the resampler is called before that fit and never after
\* it (with apply_smote off the scaler is fit on the encoded matrix); the
\* calls of preprocess are transforms only, never the resampler and never a fit
\* of scaler or reducer
C23_FitOnceResampleFirst ==
    /\ Cardinality(CallsOf("scaler.fit_transform")) = IF fpc = "fitted" THEN 1 ELSE 0
    /\ \A i \in CallsOf("scaler.fit_transform"), j \in CallsOf("apply_smote_tomek") : j < i
    /\ \A i \in 1..Len(calls) :
          calls[i].by = "preprocess" => calls[i].op \in {"scaler.transform", "pca.transform"}

\* a run that resampled and fitted, and whose files were served
C23_Witness ==
    /\ fpc = "fitted"
    /\ CallsOf("apply_smote_tomek") # {}
    /\ CallsOf("scaler.fit_transform") # {}
    /\ \E i \in 1..Len(calls) : calls[i].by = "preprocess"
    /\ out.by = "preprocess" /\ out.raised = "no"

\* the estimator at the bottom of an object and whether it was fit
Estimator(obj) == obj[Len(obj)]

\* what C25 asks of a transform of the reducer obj
NamedByFit(obj, output) ==
    /\ output.raised = "no"
    /\ output.value.columns = PCNames(Estimator(obj).n)

\* C25: a transform of a fitted reducer returns exactly the n columns PC1..PCn,
\* n being the component count of the fit: in the process that fit it, after
\* FeatureEngineer.load_preprocessors, and after the serving load
C25_ColumnsOfTheFit ==
    [][/\ (calls' # calls /\ out'.by = "apply_pca" /\ Estimator(engineer.pca).fitted)
            => NamedByFit(engineer.pca, out')
       /\ (calls' # calls /\ out'.by = "preprocess" /\ Estimator(served.pca).fitted)
            => NamedByFit(served.pca, out')]_vars

\* C26: transform on a scaler or a reducer that was neither fit nor loaded
\* raises an unfitted-state error and returns no matrix: FeatureScaler.transform,
\* DimensionalityReducer.transform and FeatureEngineer.apply_pca(fit=False)
C26_UnfittedIsRefused ==
    [][/\ (calls' # calls /\ out'.by = "FeatureScaler.transform"
            /\ ~Estimator(engineer.scaler).fitted)
            => out'.raised \in {"NotFittedError", "ScalerNotFitted"} /\ out'.value = NoMatrix
       /\ (calls' # calls /\ out'.by = "DimensionalityReducer.transform")
            => out'.raised \in {"NotFittedError", "ScalerNotFitted"} /\ out'.value = NoMatrix
       /\ (calls' # calls /\ out'.by = "apply_pca" /\ ~Estimator(engineer.pca).fitted)
            => out'.raised \in {"NotFittedError", "ScalerNotFitted"} /\ out'.value = NoMatrix]_vars

----------------------------------------------------------------------------
(* Properties of the validation of feature_names.json and of serving *)

\* feature_names.json is missing, or the names it holds are PC1, PC2, ...
NoOneHotNames ==
    \/ disk["feature_names.json"] = None
    \/ LET names == FeatureNames(disk["feature_names.json"])
       IN names = PCNames(Len(names))

\* C27: when feature_names.json is missing from the data directory or holds
\* PCA names (PC1, PC2, ...), run_training trains no model, logs no run and
\* ends failed as soon as it has looked at the file
C27_NoTrainingWithoutNames ==
    NoOneHotNames =>
        /\ runs = <<>>
        /\ trainer = NewModelTrainer
        /\ tpc \in {"start", "prepared", "failed"}

\* run_training refused a file of PCA names
C27_Witness ==
    /\ tpc = "failed"
    /\ disk["feature_names.json"] = "pca"
    /\ runs = <<>>

\* the requests that differ from the frame df of one row in str fields only
\* (the ID is no reference column: data_loader.py:147-148 drops it)
SameButCategorical(df) ==
    {other \in RawFrames :
        /\ Len(other.rows) = 1
        /\ \A j \in 1..Len(Fields) :
              Fields[j] \notin Categorical => other.rows[1][j] = df.rows[1][j]}

\* C28: preprocess of a one-row request gives every reference column that is
\* no input field the value 0, and gives every request that differs in its str
\* fields only the same aligned row; scaler, reducer and classifier of the
\* loaded bundle are functions of that row, so prediction and decision agree
C28_CategoricalFieldsIgnored ==
    pc = "preprocessed" =>
        /\ \A k \in 1..Len(X_aligned.columns) :
              X_aligned.columns[k] \notin Range(Fields) => X_aligned.rows[1][k] = 0
        /\ \A other \in SameButCategorical(X) :
              ServiceAlignFeatures(GetDummies(other, TRUE), reference_columns).X_aligned
                  = X_aligned

\* a male applicant with a car, preprocessed against reference columns that
\* hold both indicators
C28_Witness ==
    /\ pc = "preprocessed"
    /\ X.rows[1][1] = "M" /\ X.rows[1][2] = "Y"
    /\ {"CODE_GENDER_M", "FLAG_OWN_CAR_Y"} \subseteq Range(reference_columns)
    /\ \A k \in 1..Len(X_aligned.columns) :
          X_aligned.columns[k] \notin Range(Fields) => X_aligned.rows[1][k] = 0

\* C29: every ModelService that get_model_service has cached or handed to a
\* request holds a classifier and a version, so get_model_info reports it
\* loaded and no predict ends with "Model not loaded", failed reloads included
C29_CachedIsLoaded ==
    /\ \A i \in Live(model_service, queue) :
          /\ inst[i].model # NoModel
          /\ inst[i].version # NoVersion
          /\ GetModelInfo(inst[i]).loaded
    /\ last.detail # "ModelNotLoaded"

\* the cached service after a reload that failed
C29_Witness ==
    /\ model_service # 0
    /\ last.op = "reload" /\ last.status = "error"
    /\ GetModelInfo(inst[model_service]).loaded

\* C30: a predict for a model whose run id is not the cached service's tries
\* to load that run's artifacts; when the load fails the predict answers with
\* the error and the cached service is left as it was, so the next predict
\* meets the same test and tries again; a predict that answers has installed
\* the artifacts of the model's run
C30_FailedLoadKeepsAndRetries ==
    [][(/\ last'.op = "predict"
        /\ UNCHANGED <<registry, model_service, constructing>>
        /\ CanRun
        /\ preprocessing_service # NoPreprocessingService
        /\ Truthy(inst[Handed].run_id)
        /\ preprocessing_service.run_id # inst[Handed].run_id)
       => \A result \in PredictionResults :
            Predict(result)
            => /\ PredictOutcome(result).fetched
               /\ result.raised = "ArtifactLoadError"
                  => /\ last'.status = "error" /\ last'.detail = "ArtifactLoadError"
                     /\ preprocessing_service' = preprocessing_service
               /\ last'.status = "ok"
                  => preprocessing_service' = NewPreprocessingService(inst[Handed].run_id)]_vars

\* a predict failed on the artifacts of the new run and the service of the
\* previous run is still cached
C30_Witness ==
    /\ last.op = "predict" /\ last.detail = "ArtifactLoadError"
    /\ preprocessing_service # NoPreprocessingService
    /\ model_service # 0
    /\ preprocessing_service.run_id # inst[model_service].run_id


====
